---- MODULE Spec2Model ----
(***************************************************************************)
(* Model of main.py: an MCP server with a static bearer-token gate         *)
(* (SimpleBearerAuthProvider), the tools validate and add_numbers, and the *)
(* tool generate_meme, which issues one POST to the meme API and renders   *)
(* the JSON answer as text.                                                *)
(*                                                                         *)
(* Texts are sequences of string fragments: the literal parts of an        *)
(* f-string and the str() of each interpolated value, in order.            *)
(* Python's None / Optional is a set with at most one element.             *)
(***************************************************************************)
EXTENDS Integers, Sequences, FiniteSets, TLC

VARIABLES
    pc,          \* where each invocation stands (see the state machine below)
    req,         \* the request: its bearer token and its tool call
    principal,   \* what load_access_token returned for the request
    ran,         \* whether a tool body started for the request
    posts,       \* the POSTs the invocation has sent with session.post
    sessionOpen, \* the invocation's aiohttp.ClientSession is open
    respOpen,    \* the invocation's response object is open
    resp,        \* the response session.post yielded: status and body
    fault,       \* the exception the transport raised in the invocation
    result,      \* what the tool returned
    failures     \* how many invocations were denied or returned a failure

vars == <<pc, req, principal, ran, posts, sessionOpen, respOpen, resp, fault, result, failures>>

----------------------------------------------------------------------------
(* Bounds of the model *)

\* concurrent invocations the server holds at once
NumInv == 2
\* numbers given to add_numbers are k/2 for k in -MaxHalf..MaxHalf
MaxHalf == 10
\* article_index ranges over 0..MaxIndex
MaxIndex == 1
\* the count of failed invocations is kept up to this value
MaxFailures == 2

----------------------------------------------------------------------------
(* Program constants *)

TOKEN == "auth_token"
MY_NUMBER == "919818039142"
MemeApiUrl == "https://memegen-lb2x.onrender.com/puch_generate_meme"
PostTimeout == 60
HttpOk == 200

Inv == 1..NumInv

None == {}
Some(x) == {x}
Val(opt) == CHOOSE x \in opt : TRUE

----------------------------------------------------------------------------
(* Python values and their formatting *)

Digits == <<"0", "1", "2", "3", "4", "5", "6", "7", "8", "9">>

RECURSIVE IntStr(_)
\* str(n) of a non-negative int
IntStr(n) == IF n < 10 THEN Digits[n + 1]
             ELSE IntStr(n \div 10) \o Digits[(n % 10) + 1]

Abs(k) == IF k < 0 THEN -k ELSE k

\* str(x) of the float x = k/2: sign, integer part, ".", one fractional digit
FloatStr(k) == (IF k < 0 THEN "-" ELSE "")
               \o IntStr(Abs(k) \div 2) \o "."
               \o (IF Abs(k) % 2 = 1 THEN "5" ELSE "0")

NoMembers == [k \in {} |-> 0]

\* JSON / Python values: t is the type, s the string, n the number (or the
\* truth value of a bool), o the members of an object
JStr(s) == [t |-> "str", s |-> s, n |-> 0, o |-> NoMembers]
JNum(n) == [t |-> "int", s |-> "", n |-> n, o |-> NoMembers]
JBool(b) == [t |-> "bool", s |-> "", n |-> IF b THEN 1 ELSE 0, o |-> NoMembers]
JNull == [t |-> "NoneType", s |-> "", n |-> 0, o |-> NoMembers]
JList == [t |-> "list", s |-> "", n |-> 0, o |-> NoMembers]
JObj(members) == [t |-> "dict", s |-> "", n |-> 0, o |-> members]

\* bool(v)
Truthy(v) == CASE v.t = "str" -> v.s # ""
               [] v.t = "int" -> v.n # 0
               [] v.t = "bool" -> v.n = 1
               [] v.t = "NoneType" -> FALSE
               [] v.t = "list" -> FALSE
               [] v.t = "dict" -> DOMAIN v.o # {}

\* str(v) inside an f-string
Str(v) == CASE v.t = "str" -> v.s
            [] v.t = "int" -> IntStr(v.n)
            [] v.t = "bool" -> (IF v.n = 1 THEN "True" ELSE "False")
            [] v.t = "NoneType" -> "None"
            [] v.t = "list" -> "[]"
            [] v.t = "dict" -> (IF DOMAIN v.o = {} THEN "{}" ELSE "{...}")

\* d.get(key, default) of a dict d
Get(d, key, default) == IF key \in DOMAIN d.o THEN d.o[key] ELSE default

----------------------------------------------------------------------------
(* The upstream meme API: the documents it may answer with and their wire *)
(* form.  The server only ever sees the wire form (a string).             *)

MemeUrlText == "https://i.imgflip.com/abc.jpg"
TitleText == "Cats take over"
DescriptionText == "A story about cats"
TopTextText == "WHEN THE CAT"
BottomTextText == "TAKES OVER"
ErrorText == "no articles found"

PartialObjs(full) == {JObj([k \in S |-> full[k]]) : S \in SUBSET (DOMAIN full)}

FullArticle == [title |-> JStr(TitleText), description |-> JStr(DescriptionText)]
FullCaption == [topText |-> JStr(TopTextText), bottomText |-> JStr(BottomTextText)]

ArticleObjs == PartialObjs(FullArticle)
CaptionObjs == PartialObjs(FullCaption)

\* the object with the members S, success sv, article a and caption c
Doc(S, sv, a, c) == JObj([k \in S |-> CASE k = "success" -> sv
                                        [] k = "error" -> JStr(ErrorText)
                                        [] k = "memeUrl" -> JStr(MemeUrlText)
                                        [] k = "article" -> a
                                        [] k = "caption" -> c])

TopKeys == {"success", "error", "memeUrl", "article", "caption"}

SuccessDocs ==
    {Doc(S \cup {"success"}, JBool(TRUE), a, c) :
        S \in SUBSET {"memeUrl", "article", "caption"}, a \in ArticleObjs, c \in CaptionObjs}
    \cup {Doc(TopKeys \ {"error"}, sv, JObj(FullArticle), JObj(FullCaption)) :
            sv \in {JNum(1), JStr("yes")}}

FalsyValues == {JBool(FALSE), JNull, JNum(0), JStr(""), JList}

FailureDocs ==
    {Doc(S, sv, JNull, JNull) : S \in SUBSET {"success", "error", "memeUrl"}, sv \in FalsyValues}

OddDocs == {JList, JNull, JStr("ok"), JNum(7),
            Doc(TopKeys, JBool(TRUE), JStr("n/a"), JObj(FullCaption)),
            Doc(TopKeys, JBool(TRUE), JObj(FullArticle), JNull)}

JsonDocs == SuccessDocs \cup FailureDocs \cup OddDocs

KeyOrder == <<"success", "error", "memeUrl", "article", "caption",
              "title", "description", "topText", "bottomText">>

RECURSIVE Serialize(_), SerializeMembers(_, _)
\* the JSON text of a value
Serialize(v) == CASE v.t = "str" -> "\"" \o v.s \o "\""
                  [] v.t = "int" -> IntStr(v.n)
                  [] v.t = "bool" -> (IF v.n = 1 THEN "true" ELSE "false")
                  [] v.t = "NoneType" -> "null"
                  [] v.t = "list" -> "[]"
                  [] v.t = "dict" -> "{" \o SerializeMembers(v.o, 1) \o "}"

SerializeMembers(o, k) ==
    IF k > Len(KeyOrder) THEN ""
    ELSE LET key == KeyOrder[k]
             rest == SerializeMembers(o, k + 1)
         IN IF key \in DOMAIN o
            THEN "\"" \o key \o "\": " \o Serialize(o[key])
                 \o (IF rest = "" THEN "" ELSE ", " \o rest)
            ELSE rest

\* bodies that are no JSON text
MalformedBodies == {"Internal Server Error", "", "{\"success\": tru"}

Bodies == {Serialize(d) : d \in JsonDocs} \cup MalformedBodies

Statuses == {HttpOk, 201, 500}

Responses == [status : Statuses, body : Bodies]

\* str(e) of what session.post or the body read may raise: a refused
\* connection, a timeout (asyncio.TimeoutError has an empty message)
TransportErrors == {"Cannot connect to host memegen-lb2x.onrender.com:443", ""}

----------------------------------------------------------------------------
(* Outcome of a block of Python code: a returned value or a raised exception *)

Returned(v) == [raised |-> FALSE, val |-> v, msg |-> ""]
Raised(m) == [raised |-> TRUE, val |-> JNull, msg |-> m]

NoGet(v) == "'" \o v.t \o "' object has no attribute 'get'"

JsonTable == [b \in {Serialize(d) : d \in JsonDocs} |->
                 CHOOSE d \in JsonDocs : Serialize(d) = b]

\* await resp.json(): the parsed body, or the decoder's exception
json(body) == IF body \in DOMAIN JsonTable
              THEN Returned(JsonTable[body])
              ELSE Raised("Expecting value: line 1 column 1 (char 0)")

\* variant: data.get("success") is False
success_of_is_not_false(data) == Get(data, "success", JNull) # JBool(FALSE)

\* python's truth test of data.get("success")
success_of(data) == Truthy(Get(data, "success", JNull))

\* data["memeUrl"]
meme_url_of(data) == IF "memeUrl" \in DOMAIN data.o
                     THEN Returned(data.o["memeUrl"])
                     ELSE Raised("'memeUrl'")

\* variant: the caption's top text is written twice
MemeTextTopTwice(topic, article, caption, meme_url) ==
    <<"**Meme Generated!**\nTopic: ", topic, "\n\nArticle: ",
      Str(Get(article, "title", JNull)), "\nDescription: ",
      Str(Get(article, "description", JNull)), "\nCaption: ",
      Str(Get(caption, "topText", JStr(""))), " / ",
      Str(Get(caption, "topText", JStr(""))), "\nMeme URL: ",
      Str(meme_url)>>

\* the success block of generate_meme
MemeText(topic, article, caption, meme_url) ==
    <<"**Meme Generated!**\nTopic: ", topic, "\n\nArticle: ",
      Str(Get(article, "title", JNull)), "\nDescription: ",
      Str(Get(article, "description", JNull)), "\nCaption: ",
      Str(Get(caption, "topText", JStr(""))), " / ",
      Str(Get(caption, "bottomText", JStr(""))), "\nMeme URL: ",
      Str(meme_url)>>

TextOut(t) == [raised |-> FALSE, text |-> t, msg |-> ""]
RaiseOut(m) == [raised |-> TRUE, text |-> <<>>, msg |-> m]

\* variant: only 4xx and 5xx count as failed
status_failed_from_400(status) == status >= 400

\* if resp.status != 200
status_failed(status) == status # HttpOk

\* the body of the inner "async with", from the status test to the return,
\* given the response whose body has arrived
handle_response(topic, r) ==
    IF status_failed(r.status)
    THEN TextOut(<<"API request failed: ", r.body>>)
    ELSE LET parsed == json(r.body) IN
         IF parsed.raised THEN RaiseOut(parsed.msg)
         ELSE LET data == parsed.val IN
              IF data.t # "dict" THEN RaiseOut(NoGet(data))
              ELSE IF ~success_of(data)
              THEN TextOut(<<"Error: ", Str(Get(data, "error", JStr("Unknown error")))>>)
              ELSE LET mu == meme_url_of(data)
                       article == Get(data, "article", JObj(NoMembers))
                       caption == Get(data, "caption", JObj(NoMembers))
                   IN IF mu.raised THEN RaiseOut(mu.msg)
                      ELSE IF article.t # "dict" THEN RaiseOut(NoGet(article))
                      ELSE IF caption.t # "dict" THEN RaiseOut(NoGet(caption))
                      ELSE TextOut(MemeText(topic, article, caption, mu.val))

\* variant: except aiohttp.ClientError, asyncio.TimeoutError; anything else
\* leaves the tool
tool_result_transport_only(out) ==
    IF out.raised
    THEN (IF out.msg \in TransportErrors
          THEN Some(<<"Exception occurred: ", out.msg>>) ELSE None)
    ELSE Some(out.text)

\* try ... except Exception as e: what the tool returns for an outcome
tool_result(out) == IF out.raised THEN Some(<<"Exception occurred: ", out.msg>>)
                    ELSE Some(out.text)

\* variant: the difference instead of the sum
add_result_minus(number1, number2) == number1 - number2

\* number1 + number2 of add_numbers.  A float x is held as the integer 2x
\* (2.5 is 5): halves add exactly in binary64, and 2x + 2y = 2(x + y)
add_result(number1, number2) == number1 + number2

add_numbers(number1, number2) ==
    <<"The sum of ", FloatStr(number1), " and ", FloatStr(number2), " is ",
      FloatStr(add_result(number1, number2))>>

\* variant: the token is compared up to case and surrounding blanks
load_access_token_lenient(token) ==
    IF token \in {TOKEN, "AUTH_TOKEN", "auth_token "}
    THEN Some([token |-> token, client_id |-> "math-client",
               scopes |-> <<"*">>, expires_at |-> None])
    ELSE None

\* load_access_token: the AccessToken, or None
load_access_token(token) ==
    IF token = TOKEN
    THEN Some([token |-> token, client_id |-> "math-client",
               scopes |-> <<"*">>, expires_at |-> None])
    ELSE None

----------------------------------------------------------------------------
(* Requests *)

Tokens == {TOKEN, "AUTH_TOKEN", "auth_token ", ""}
Topics == {"cats", "budget"}
Halves == (-MaxHalf)..MaxHalf
Indexes == 0..MaxIndex

ValidateCall == [tool |-> "validate", number1 |-> 0, number2 |-> 0,
                 topic |-> "", article_index |-> 0]
AddCall(a, b) == [tool |-> "add_numbers", number1 |-> a, number2 |-> b,
                  topic |-> "", article_index |-> 0]
MemeCall(topic, idx) == [tool |-> "generate_meme", number1 |-> 0, number2 |-> 0,
                         topic |-> topic, article_index |-> idx]

Calls == {ValidateCall} \cup {AddCall(a, b) : a \in Halves, b \in Halves}
         \cup {MemeCall(t, x) : t \in Topics, x \in Indexes}

\* the server lets a request through to its tool iff the provider returned
\* an AccessToken for the bearer token
Accepted(token) == load_access_token(token) # None

\* session.post(url, json={"topic": topic, "articleIndex": article_index}, timeout=60)
post_request(topic, article_index) ==
    [url |-> MemeApiUrl,
     json |-> [topic |-> topic, articleIndex |-> article_index],
     timeout |-> PostTimeout]

\* variant: the response is kept in one module-level variable
shared_resp(i) == Val(resp[CHOOSE j \in Inv : resp[j] # None])

\* the invocation's own response object ("as resp")
local_resp(i) == Val(resp[i])

\* the invocation's own topic argument
local_topic(i) == Val(req[i]).call.topic

----------------------------------------------------------------------------
(* State machine.  pc[i] is where invocation i stands:                     *)
(*   idle           no request                                             *)
(*   denied         the gate rejected the request                          *)
(*   awaitResponse  generate_meme is suspended in session.post             *)
(*   readBody       generate_meme is suspended in resp.text()/resp.json()  *)
(*   done           the tool returned                                      *)

Init ==
    /\ pc = [i \in Inv |-> "idle"]
    /\ req = [i \in Inv |-> None]
    /\ principal = [i \in Inv |-> None]
    /\ ran = [i \in Inv |-> FALSE]
    /\ posts = [i \in Inv |-> <<>>]
    /\ sessionOpen = [i \in Inv |-> FALSE]
    /\ respOpen = [i \in Inv |-> FALSE]
    /\ resp = [i \in Inv |-> None]
    /\ fault = [i \in Inv |-> None]
    /\ result = [i \in Inv |-> None]
    /\ failures = 0

\* the request reaches the gate
Arrive(i, token, call) ==
    /\ pc[i] = "idle"
    /\ req' = [req EXCEPT ![i] = Some([token |-> token, call |-> call])]
    /\ principal' = [principal EXCEPT ![i] = load_access_token(token)]

\* a request whose token the gate does not accept: no tool runs
Deny(i, token, call) ==
    /\ Arrive(i, token, call)
    /\ ~Accepted(token)
    /\ pc' = [pc EXCEPT ![i] = "denied"]
    /\ UNCHANGED <<ran, posts, sessionOpen, respOpen, resp, fault, result, failures>>

\* tool validate
Validate(i, token) ==
    /\ Arrive(i, token, ValidateCall)
    /\ Accepted(token)
    /\ ran' = [ran EXCEPT ![i] = TRUE]
    /\ result' = [result EXCEPT ![i] = Some(<<MY_NUMBER>>)]
    /\ pc' = [pc EXCEPT ![i] = "done"]
    /\ UNCHANGED <<posts, sessionOpen, respOpen, resp, fault, failures>>

\* tool add_numbers
AddNumbers(i, token, number1, number2) ==
    /\ Arrive(i, token, AddCall(number1, number2))
    /\ Accepted(token)
    /\ ran' = [ran EXCEPT ![i] = TRUE]
    /\ result' = [result EXCEPT ![i] = Some(add_numbers(number1, number2))]
    /\ pc' = [pc EXCEPT ![i] = "done"]
    /\ UNCHANGED <<posts, sessionOpen, respOpen, resp, fault, failures>>

\* tool generate_meme, up to its first suspension: the session is opened
\* and the POST is sent
GenerateMeme(i, token, topic, article_index) ==
    /\ Arrive(i, token, MemeCall(topic, article_index))
    /\ Accepted(token)
    /\ ran' = [ran EXCEPT ![i] = TRUE]
    /\ sessionOpen' = [sessionOpen EXCEPT ![i] = TRUE]
    /\ posts' = [posts EXCEPT ![i] = Append(@, post_request(topic, article_index))]
    /\ pc' = [pc EXCEPT ![i] = "awaitResponse"]
    /\ UNCHANGED <<respOpen, resp, fault, result, failures>>

\* variant: no "async with"; the response and the session are closed only
\* on the way to a return
FinishLeaky(i, out) ==
    /\ respOpen' = [respOpen EXCEPT ![i] = out.raised /\ respOpen[i]]
    /\ sessionOpen' = [sessionOpen EXCEPT ![i] = out.raised]
    /\ result' = [result EXCEPT ![i] = tool_result(out)]
    /\ pc' = [pc EXCEPT ![i] = "done"]
    /\ UNCHANGED <<req, principal, ran, posts, failures>>

\* the tool leaves both "async with" blocks with the outcome out, by return
\* or by exception: the response and the session are released, and the
\* try/except turns the outcome into the tool's result
Finish(i, out) ==
    /\ respOpen' = [respOpen EXCEPT ![i] = FALSE]
    /\ sessionOpen' = [sessionOpen EXCEPT ![i] = FALSE]
    /\ result' = [result EXCEPT ![i] = tool_result(out)]
    /\ pc' = [pc EXCEPT ![i] = "done"]
    /\ UNCHANGED <<req, principal, ran, posts, failures>>

\* variant: a failed POST is sent again
PostFailsRetry(i, e) ==
    /\ pc[i] = "awaitResponse"
    /\ Len(posts[i]) < 3
    /\ posts' = [posts EXCEPT ![i] = Append(@, @[1])]
    /\ UNCHANGED <<pc, req, principal, ran, sessionOpen, respOpen, resp, fault,
                   result, failures>>

\* session.post raises: connection refused, or the 60 s timeout
PostFails(i, e) ==
    /\ pc[i] = "awaitResponse"
    /\ fault' = [fault EXCEPT ![i] = Some(e)]
    /\ UNCHANGED resp
    /\ Finish(i, RaiseOut(e))

\* session.post yields the response r
PostResponds(i, r) ==
    /\ pc[i] = "awaitResponse"
    /\ resp' = [resp EXCEPT ![i] = Some(r)]
    /\ respOpen' = [respOpen EXCEPT ![i] = TRUE]
    /\ pc' = [pc EXCEPT ![i] = "readBody"]
    /\ UNCHANGED <<req, principal, ran, posts, sessionOpen, fault, result, failures>>

\* the body arrives and the tool runs to its return
ReadBody(i) ==
    /\ pc[i] = "readBody"
    /\ UNCHANGED <<resp, fault>>
    /\ Finish(i, handle_response(local_topic(i), local_resp(i)))

\* reading the body raises: the connection drops, or the 60 s timeout
ReadFails(i, e) ==
    /\ pc[i] = "readBody"
    /\ fault' = [fault EXCEPT ![i] = Some(e)]
    /\ UNCHANGED resp
    /\ Finish(i, RaiseOut(e))

SuccessHead == "**Meme Generated!**\nTopic: "

\* a finished invocation that did not produce what was asked for
Failed(i) == \/ pc[i] = "denied"
             \/ /\ pc[i] = "done"
                /\ Val(req[i]).call.tool = "generate_meme"
                /\ (result[i] = None \/ Val(result[i])[1] # SuccessHead)

\* the result goes back to the caller and the invocation is over
Return(i) ==
    /\ pc[i] \in {"denied", "done"}
    /\ pc' = [pc EXCEPT ![i] = "idle"]
    /\ req' = [req EXCEPT ![i] = None]
    /\ principal' = [principal EXCEPT ![i] = None]
    /\ ran' = [ran EXCEPT ![i] = FALSE]
    /\ posts' = [posts EXCEPT ![i] = <<>>]
    /\ resp' = [resp EXCEPT ![i] = None]
    /\ fault' = [fault EXCEPT ![i] = None]
    /\ result' = [result EXCEPT ![i] = None]
    /\ failures' = IF Failed(i) /\ failures < MaxFailures THEN failures + 1 ELSE failures
    /\ UNCHANGED <<sessionOpen, respOpen>>

\* one invocation at a time, every input
Solo == {1}

Next ==
    \E i \in Solo :
        \/ \E t \in Tokens, c \in Calls : Deny(i, t, c)
        \/ \E t \in Tokens : Validate(i, t)
        \/ \E t \in Tokens, a \in Halves, b \in Halves : AddNumbers(i, t, a, b)
        \/ \E t \in Tokens, tp \in Topics, x \in Indexes : GenerateMeme(i, t, tp, x)
        \/ \E e \in TransportErrors : PostFails(i, e)
        \/ \E r \in Responses : PostResponds(i, r)
        \/ ReadBody(i)
        \/ \E e \in TransportErrors : ReadFails(i, e)
        \/ Return(i)

Spec == Init /\ [][Next]_vars

\* NumInv concurrent invocations, a few inputs each
ConcTokens == {TOKEN, "wrong"}
ConcCalls == {ValidateCall, AddCall(1, 2)} \cup {MemeCall(t, 0) : t \in Topics}
ConcBodies == {Serialize(Doc(TopKeys \ {"error"}, JBool(TRUE), JObj(FullArticle), JObj(FullCaption))),
               Serialize(Doc({"success", "error"}, JBool(FALSE), JNull, JNull)),
               "Internal Server Error"}
ConcResponses == [status : {HttpOk, 500}, body : ConcBodies]
ConcErrors == {""}

NextConc ==
    \E i \in Inv :
        \/ \E t \in ConcTokens, c \in ConcCalls : Deny(i, t, c)
        \/ \E t \in ConcTokens : Validate(i, t)
        \/ \E t \in ConcTokens : AddNumbers(i, t, 1, 2)
        \/ \E t \in ConcTokens, tp \in Topics : GenerateMeme(i, t, tp, 0)
        \/ \E e \in ConcErrors : PostFails(i, e)
        \/ \E r \in ConcResponses : PostResponds(i, r)
        \/ ReadBody(i)
        \/ \E e \in ConcErrors : ReadFails(i, e)
        \/ Return(i)

SpecConc == Init /\ [][NextConc]_vars

----------------------------------------------------------------------------
(* Properties *)

Call(i) == Val(req[i]).call
IsMeme(i) == req[i] # None /\ Call(i).tool = "generate_meme"
Text(i) == Val(result[i])
\* generate_meme returned after the whole response, head and body, arrived
Answered(i) == pc[i] = "done" /\ IsMeme(i) /\ resp[i] # None /\ fault[i] = None
Wire == [d \in JsonDocs |-> Serialize(d)]
Contains(text, s) == \E k \in 1..Len(text) : text[k] = s
FullDoc == Doc(TopKeys \ {"error"}, JBool(TRUE), JObj(FullArticle), JObj(FullCaption))

\* C1: a tool runs for a request only if the gate accepted its token; the
\* gate returns the principal (client_id "math-client", scopes ["*"], no
\* expiry) iff the token equals the configured secret, and None otherwise,
\* and then nothing of the tool happens: no result, no session, no POST.
C1_GateDecides ==
    \A i \in Inv :
        req[i] # None =>
            LET tok == Val(req[i]).token IN
            /\ (principal[i] # None) <=> (tok = "auth_token")
            /\ principal[i] # None =>
                   Val(principal[i]) = [token |-> tok, client_id |-> "math-client",
                                        scopes |-> <<"*">>, expires_at |-> {}]
            /\ ran[i] => tok = "auth_token"
            /\ (result[i] # None \/ posts[i] # <<>> \/ sessionOpen[i]) => ran[i]
            /\ tok # "auth_token" =>
                   /\ pc[i] = "denied"
                   /\ principal[i] = {}
                   /\ ~ran[i]

C1_Witness ==
    \E i \in Inv :
        /\ pc[i] = "denied"
        /\ Val(req[i]).token = "auth_token "
        /\ Call(i).tool = "generate_meme"
        /\ posts[i] = <<>>

\* C2: every finished generate_meme holds a text result; a failed POST, a
\* failed body read, a body that is no JSON and a JSON body that is no
\* object each end as the text "Exception occurred: <message>".
C2_FailuresBecomeText ==
    \A i \in Inv :
        (pc[i] = "done" /\ IsMeme(i)) =>
            /\ result[i] # None
            /\ Len(Text(i)) >= 2
            /\ fault[i] # None => Text(i) = <<"Exception occurred: ", Val(fault[i])>>
            /\ (Answered(i) /\ Val(resp[i]).status = 200
                /\ \/ Val(resp[i]).body \in MalformedBodies
                   \/ \E d \in JsonDocs : d.t # "dict" /\ Wire[d] = Val(resp[i]).body)
               => (Len(Text(i)) = 2 /\ Text(i)[1] = "Exception occurred: ")

C2_Witness ==
    \E i \in Inv :
        /\ Answered(i)
        /\ Val(resp[i]).status = 200
        /\ Val(resp[i]).body = "[]"
        /\ Text(i) = <<"Exception occurred: ", "'list' object has no attribute 'get'">>

\* C3: with status 200 and success true, whichever of memeUrl, article,
\* caption, title, description, topText and bottomText are missing, the
\* result is the "Meme Generated!" block, a missing field written as
\* nothing (or as None).
C3_MissingFieldsTolerated ==
    \A i \in Inv :
        (Answered(i) /\ Val(resp[i]).status = 200) =>
            \A d \in JsonDocs :
                (/\ Wire[d] = Val(resp[i]).body
                 /\ d.t = "dict"
                 /\ "success" \in DOMAIN d.o
                 /\ d.o["success"] = JBool(TRUE)
                 /\ \A k \in {"article", "caption"} \cap DOMAIN d.o : d.o[k].t = "dict")
                => /\ Len(Text(i)) = 12
                   /\ Text(i)[1] = "**Meme Generated!**\nTopic: "
                   /\ "memeUrl" \notin DOMAIN d.o => Text(i)[12] \in {"", "None"}

\* C4: with a status other than 200 and the body b received, the result is
\* "API request failed: " followed by b itself, whatever b is; with such a
\* status the result is never the success block nor an "Error: " text.
C4_Non200IsRawBody ==
    \A i \in Inv :
        (pc[i] = "done" /\ IsMeme(i) /\ resp[i] # None /\ Val(resp[i]).status # 200) =>
            /\ fault[i] = None => Text(i) = <<"API request failed: ", Val(resp[i]).body>>
            /\ Text(i)[1] \notin {"**Meme Generated!**\nTopic: ", "Error: "}

C4_Witness ==
    \E i \in Inv :
        /\ Answered(i)
        /\ Val(resp[i]).status = 201
        /\ Val(resp[i]).body = Wire[FullDoc]
        /\ Text(i) = <<"API request failed: ", Wire[FullDoc]>>

\* C5: with status 200 and a JSON object whose success is false, null, 0,
\* "", [] or missing, the result is "Error: " followed by the error field,
\* or by "Unknown error" when there is no error field.
C5_FalsySuccessIsError ==
    \A i \in Inv :
        (Answered(i) /\ Val(resp[i]).status = 200) =>
            \A d \in JsonDocs :
                (/\ Wire[d] = Val(resp[i]).body
                 /\ d.t = "dict"
                 /\ \/ "success" \notin DOMAIN d.o
                    \/ d.o["success"] \in {JBool(FALSE), JNull, JNum(0), JStr(""), JList})
                => Text(i) = <<"Error: ",
                               IF "error" \in DOMAIN d.o THEN d.o["error"].s
                               ELSE "Unknown error">>

C5_Witness ==
    \E i \in Inv :
        /\ Answered(i)
        /\ Val(resp[i]).status = 200
        /\ Val(resp[i]).body = "{\"success\": null, \"memeUrl\": \"https://i.imgflip.com/abc.jpg\"}"
        /\ Text(i) = <<"Error: ", "Unknown error">>

\* C6: with status 200 and success true, memeUrl U, article title T and
\* description D, caption topText X and bottomText Y, the result is the
\* success block and contains the topic, U, T, D, X and Y as they came.
C6_FullBlock ==
    \A i \in Inv :
        (Answered(i) /\ Val(resp[i]).status = 200 /\ Val(resp[i]).body = Wire[FullDoc]) =>
            /\ Text(i)[1] = "**Meme Generated!**\nTopic: "
            /\ \A s \in {Call(i).topic, "https://i.imgflip.com/abc.jpg", "Cats take over",
                         "A story about cats", "WHEN THE CAT", "TAKES OVER"} :
                   Contains(Text(i), s)

C6_Witness ==
    \E i \in Inv :
        /\ Answered(i)
        /\ Val(resp[i]).status = 200
        /\ Val(resp[i]).body = Wire[FullDoc]
        /\ Call(i).topic = "budget"
        /\ Len(Text(i)) = 12

\* the floats k/2 that a text names
FloatsOf(s) == {k \in (-2 * MaxHalf)..(2 * MaxHalf) : FloatStr(k) = s}

\* C7: add_numbers always returns the one sentence "The sum of a and b is
\* c" in which the three numbers read back as a, b and a + b.
C7_SumInText ==
    \A i \in Inv :
        (pc[i] = "done" /\ Call(i).tool = "add_numbers") =>
            /\ result[i] # None
            /\ Len(Text(i)) = 6
            /\ <<Text(i)[1], Text(i)[3], Text(i)[5]>> = <<"The sum of ", " and ", " is ">>
            /\ FloatsOf(Text(i)[2]) = {Call(i).number1}
            /\ FloatsOf(Text(i)[4]) = {Call(i).number2}
            /\ FloatsOf(Text(i)[6]) = {Call(i).number1 + Call(i).number2}

C7_Witness ==
    \E i \in Inv :
        /\ pc[i] = "done"
        /\ Call(i).tool = "add_numbers"
        /\ Call(i).number1 = -1
        /\ Call(i).number2 = -10
        /\ Text(i) = <<"The sum of ", "-0.5", " and ", "-5.0", " is ", "-5.5">>

\* C8: a generate_meme invocation has sent exactly one POST, to the meme
\* API with {topic, articleIndex} of its own arguments and a 60 s timeout,
\* from its start until it is over, however it ends; nothing else POSTs.
C8_OnePost ==
    \A i \in Inv :
        /\ (IsMeme(i) /\ pc[i] \in {"awaitResponse", "readBody", "done"}) =>
               posts[i] = <<[url |-> "https://memegen-lb2x.onrender.com/puch_generate_meme",
                             json |-> [topic |-> Call(i).topic,
                                       articleIndex |-> Call(i).article_index],
                             timeout |-> 60]>>
        /\ (~IsMeme(i) \/ pc[i] = "denied") => posts[i] = <<>>

C8_Witness ==
    \E i \in Inv :
        /\ pc[i] = "done"
        /\ IsMeme(i)
        /\ Call(i).article_index = 1
        /\ fault[i] # None
        /\ resp[i] = None
        /\ Len(posts[i]) = 1

\* what invocation i returns when it is the only one: a function of its own
\* arguments, its own response and its own transport failure
Alone(i) ==
    CASE Call(i).tool = "validate" -> Some(<<MY_NUMBER>>)
      [] Call(i).tool = "add_numbers" ->
             Some(add_numbers(Call(i).number1, Call(i).number2))
      [] Call(i).tool = "generate_meme" ->
             IF fault[i] # None THEN Some(<<"Exception occurred: ", Val(fault[i])>>)
             ELSE tool_result(handle_response(Call(i).topic, Val(resp[i])))

\* C9: under every interleaving, and after any number of failed
\* invocations, a finished invocation holds the result it has alone, and
\* an idle slot accepts the next invocation.
C9_Independent ==
    \A i \in Inv :
        /\ pc[i] = "done" => result[i] = Alone(i)
        /\ pc[i] = "idle" => ENABLED GenerateMeme(i, TOKEN, "cats", 0)

C9_Witness ==
    \E i \in Inv, j \in Inv :
        /\ failures > 0
        /\ Answered(i)
        /\ Text(i)[1] = "**Meme Generated!**\nTopic: "
        /\ pc[j] = "readBody"
        /\ Call(j).topic # Call(i).topic
        /\ Val(resp[j]) # Val(resp[i])

\* C10: an invocation holds a session exactly while it is between its POST
\* and its return, and a response exactly while it reads the body; both
\* are released once it has returned, by any path.
C10_Released ==
    \A i \in Inv :
        /\ pc[i] \in {"idle", "denied", "done"} => (~sessionOpen[i] /\ ~respOpen[i])
        /\ pc[i] = "awaitResponse" => (sessionOpen[i] /\ ~respOpen[i])
        /\ pc[i] = "readBody" => (sessionOpen[i] /\ respOpen[i])

C10_Witness ==
    \E i \in Inv, j \in Inv :
        /\ pc[i] = "done"
        /\ IsMeme(i)
        /\ resp[i] # None
        /\ fault[i] # None
        /\ ~sessionOpen[i]
        /\ ~respOpen[i]
        /\ pc[j] = "readBody"
        /\ sessionOpen[j]

====
